---- MODULE Spec2Model ----
(***************************************************************************)
(* Model of src/config.rs of url-bot-rs: the configuration schema and its  *)
(* defaults, Conf::load / Conf::write through a TOML document, the channel *)
(* list helpers, the path helpers (expand_tilde, ensure_parent_dir) and    *)
(* the runtime assembly Rtd::conf / Rtd::db / Rtd::load.                    *)
(*                                                                         *)
(* A path is the sequence of its components as std::path::Path::components *)
(* yields them: "/" (RootDir, first only), "." (CurDir), ".." (ParentDir)  *)
(* or a name.  A location is the absolute, normalised place a path         *)
(* resolves to: the sequence of directory names from the root.             *)
(* An Option<T> is a sequence of length 0 (None) or 1 (Some).              *)
(***************************************************************************)
EXTENDS Naturals, Sequences, FiniteSets, TLC

VARIABLES
    hasHome,     \* BaseDirs::new() is Some: the platform knows a home directory
    cwd,         \* location of the process's working directory
    dirs,        \* locations of the directories that exist
    ro,          \* locations of directories in which nothing can be created
    files,       \* location -> document, for the files that exist
    unreadable,  \* locations of files that cannot be opened for reading
    diskFull,    \* write_all fails: no space left for file data
    fs0,         \* the directories and files there were when the caller started
    args,        \* what the caller passes to Rtd::conf and Rtd::db
    rtd,         \* the Rtd under construction (self)
    pc,          \* the caller's position in Rtd::new().conf(..).db(..).load()
    ret,         \* what Rtd::load returned: "none" yet, "ok" or "err"
    snapshot,    \* Option<Rtd>: the value of Ok(self.clone())
    error,       \* the error Rtd::load returned ("" when none)
    log,         \* the steps Rtd::load performed, each with its error
    call,        \* the last helper call made: operation, argument, result
    added,       \* names that add_channel pushed and remove_channel has not taken
    created,     \* locations whose creation ensure_parent_dir has reported (true)
    conf0,       \* the Configuration handed to Conf::write
    loaded       \* Option<Conf>: what Conf::load returned

vars == << hasHome, cwd, dirs, ro, files, unreadable, diskFull, fs0, args,
           rtd, pc,
           ret, snapshot, error, log, call, added, created, conf0, loaded >>

None == << >>

Some(x) == << x >>

IsSome(o) == Len(o) = 1

Front(s) == SubSeq(s, 1, Len(s) - 1)

Last(s) == s[Len(s)]

Contains(s, x) == \E i \in 1..Len(s) : s[i] = x

\* the version string of the running program
VERSION == "url-bot-rs-v"

(***************************************************************************)
(* Schema and defaults                                                     *)
(***************************************************************************)
DefaultNetwork == [ name |-> "default" ]

DefaultFeatures == [ history |-> FALSE ]

DefaultDbType == "InMemory"

\* a Database whose default names a storage file
DefaultDatabasePath_some == Some(<< "data", "hist.db" >>)

DefaultDatabasePath == None

DefaultDatabase == [ db_type |-> DefaultDbType, path |-> DefaultDatabasePath ]

\* the fields of IrcConfig this file reads or writes; ..IrcConfig::default()
\* leaves version None
DefaultClient == [ channels |-> Some(<< "#url-bot-rs" >>), version |-> None ]

DefaultConf ==
    [ network  |-> DefaultNetwork,
      features |-> DefaultFeatures,
      database |-> DefaultDatabase,
      client   |-> DefaultClient ]

DefaultPaths == [ conf |-> << >>, db |-> None ]

RtdDefault == [ paths |-> DefaultPaths, conf |-> DefaultConf, history |-> FALSE ]

(***************************************************************************)
(* The TOML document: which keys are present, and their values.            *)
(* wf = FALSE is text that is not well-formed TOML.                        *)
(***************************************************************************)
EmptyDoc ==
    [ wf |-> TRUE, name |-> None, history |-> None, type |-> None, path |-> None,
      connection |-> FALSE, channels |-> None, version |-> None ]

Garbage == [ EmptyDoc EXCEPT !.wf = FALSE ]

\* toml::ser::to_string: every table is written, a None field is left out
Serialize(c) ==
    [ wf         |-> TRUE,
      name       |-> Some(c.network.name),
      history    |-> Some(c.features.history),
      type       |-> Some(c.database.db_type),
      path       |-> c.database.path,
      connection |-> TRUE,
      channels   |-> c.client.channels,
      version    |-> c.client.version ]

DbTypes == { "InMemory", "SQLite" }

ParseFails(d) == ~d.wf \/ (IsSome(d.type) /\ d.type[1] \notin DbTypes)

\* toml::de::from_str with #[serde(default)]: an absent key takes its default
Deserialize(d) ==
    [ network  |-> IF IsSome(d.name) THEN [ name |-> d.name[1] ] ELSE DefaultNetwork,
      features |-> IF IsSome(d.history) THEN [ history |-> d.history[1] ]
                   ELSE DefaultFeatures,
      database |-> [ db_type |-> IF IsSome(d.type) THEN d.type[1]
                                 ELSE DefaultDatabase.db_type,
                     path    |-> IF IsSome(d.path) THEN d.path
                                 ELSE DefaultDatabase.path ],
      client   |-> IF d.connection
                   THEN [ channels |-> d.channels, version |-> d.version ]
                   ELSE DefaultConf.client ]

(***************************************************************************)
(* Paths and the file system                                               *)
(***************************************************************************)
HomeDir == << "/", "h" >>

IsAbs(p) == Len(p) > 0 /\ p[1] = "/"

\* Path::parent
Parent(p) == IF p = << >> \/ p = << "/" >> THEN None ELSE Some(Front(p))

\* PathBuf::join
Join(base, rel) == IF IsAbs(rel) THEN rel ELSE base \o rel

expand_tilde(path) ==
    IF hasHome /\ Len(path) > 0 /\ path[1] = "~"
    THEN Join(HomeDir, Tail(path))
    ELSE path

\* the kernel's path walk: every component is looked up in an existing directory
RECURSIVE WalkFrom(_, _, _, _)
WalkFrom(D, F, cur, comps) ==
    IF comps = << >> THEN [ err |-> "", loc |-> cur ]
    ELSE IF cur \in DOMAIN F THEN [ err |-> "NotADirectory", loc |-> cur ]
    ELSE IF cur \notin D THEN [ err |-> "NotFound", loc |-> cur ]
    ELSE LET c == Head(comps)
             nxt == CASE c = "/"  -> << >>
                      [] c = "."  -> cur
                      [] c = ".." -> IF cur = << >> THEN << >> ELSE Front(cur)
                      [] OTHER    -> Append(cur, c)
         IN  WalkFrom(D, F, nxt, Tail(comps))

Locate(D, F, p) ==
    IF p = << >> THEN [ err |-> "NotFound", loc |-> cwd ]
    ELSE WalkFrom(D, F, IF IsAbs(p) THEN << >> ELSE cwd, p)

\* Path::exists
Exists(D, F, p) ==
    LET w == Locate(D, F, p)
    IN  w.err = "" /\ w.loc \in D \cup DOMAIN F

\* Path::is_dir
IsDir(D, F, p) ==
    LET w == Locate(D, F, p)
    IN  w.err = "" /\ w.loc \in D

\* mkdir(2)
Mkdir(D, F, p) ==
    IF p = << >> THEN [ err |-> "NotFound", dirs |-> D ]
    ELSE IF Last(p) \in { "/", ".", ".." }
    THEN [ err |-> IF Locate(D, F, p).err = "" THEN "AlreadyExists"
                   ELSE Locate(D, F, p).err,
           dirs |-> D ]
    ELSE LET w == IF Len(p) = 1 THEN [ err |-> "", loc |-> cwd ]
                  ELSE Locate(D, F, Front(p))
             t == Append(w.loc, Last(p))
         IN  IF w.err # "" THEN [ err |-> w.err, dirs |-> D ]
             ELSE IF w.loc \in DOMAIN F THEN [ err |-> "NotADirectory", dirs |-> D ]
             ELSE IF w.loc \notin D THEN [ err |-> "NotFound", dirs |-> D ]
             ELSE IF t \in D \cup DOMAIN F THEN [ err |-> "AlreadyExists", dirs |-> D ]
             ELSE IF w.loc \in ro THEN [ err |-> "PermissionDenied", dirs |-> D ]
             ELSE [ err |-> "", dirs |-> D \cup { t } ]

\* fs::create_dir_all
RECURSIVE CreateDirAll(_, _, _)
CreateDirAll(D, F, p) ==
    IF p = << >> THEN [ err |-> "", dirs |-> D ]
    ELSE LET m == Mkdir(D, F, p)
         IN  IF m.err = "" THEN m
             ELSE IF m.err # "NotFound"
             THEN IF IsDir(D, F, p) THEN [ err |-> "", dirs |-> D ] ELSE m
             ELSE IF Parent(p) = None THEN [ err |-> "Other", dirs |-> D ]
             ELSE LET r == CreateDirAll(D, F, Parent(p)[1])
                      m2 == Mkdir(r.dirs, F, p)
                  IN  IF r.err # "" THEN r
                      ELSE IF m2.err = "" THEN m2
                      ELSE IF IsDir(r.dirs, F, p) THEN [ err |-> "", dirs |-> r.dirs ]
                      ELSE [ err |-> m2.err, dirs |-> r.dirs ]

\* the component count is not consulted
without_path_never(file) == FALSE

without_path(file) == Len(file) = 1

\* the directory is reported as created, and is not
ensure_parent_dir_no_create(D, F, file) ==
    IF Parent(file) # None /\ ~without_path(file)
    THEN [ err |-> "", val |-> ~Exists(D, F, Parent(file)[1]), dirs |-> D ]
    ELSE [ err |-> "", val |-> FALSE, dirs |-> D ]

\* ensure_parent_dir: Result<bool> and the directories afterwards
ensure_parent_dir(D, F, file) ==
    IF Parent(file) # None /\ ~without_path(file)
    THEN LET dir == Parent(file)[1]
             create == ~Exists(D, F, dir)
             r == CreateDirAll(D, F, dir)
         IN  IF create
             THEN IF r.err # "" THEN [ err |-> r.err, val |-> FALSE, dirs |-> r.dirs ]
                  ELSE [ err |-> "", val |-> TRUE, dirs |-> r.dirs ]
             ELSE [ err |-> "", val |-> FALSE, dirs |-> D ]
    ELSE [ err |-> "", val |-> FALSE, dirs |-> D ]

(***************************************************************************)
(* ConfigStore: Conf::load and Conf::write                                 *)
(***************************************************************************)
\* File::create (open with O_CREAT and O_TRUNC), then write_all of the text
ConfWrite(D, F, c, p) ==
    LET w == Locate(D, F, p)
    IN  IF w.err # "" THEN [ err |-> w.err, files |-> F ]
        ELSE IF w.loc \in D THEN [ err |-> "IsADirectory", files |-> F ]
        ELSE IF w.loc \notin DOMAIN F /\ Front(w.loc) \in ro
        THEN [ err |-> "PermissionDenied", files |-> F ]
        ELSE IF diskFull
        THEN [ err |-> "StorageFull", files |-> (w.loc :> EmptyDoc) @@ F ]
        ELSE [ err |-> "", files |-> (w.loc :> Serialize(c)) @@ F ]

\* a file that cannot be read or parsed is taken to be the default configuration
ConfLoad_or_default(D, F, p) ==
    LET w == Locate(D, F, p)
    IN  IF w.err # "" \/ w.loc \notin DOMAIN F \/ w.loc \in unreadable
        THEN [ err |-> "", step |-> "parse", conf |-> DefaultConf ]
        ELSE IF ParseFails(F[w.loc])
        THEN [ err |-> "", step |-> "parse", conf |-> DefaultConf ]
        ELSE [ err |-> "", step |-> "parse", conf |-> Deserialize(F[w.loc]) ]

\* fs::read_to_string, then toml::de::from_str
ConfLoad(D, F, p) ==
    LET w == Locate(D, F, p)
    IN  IF w.err # "" THEN [ err |-> w.err, step |-> "read", conf |-> DefaultConf ]
        ELSE IF w.loc \in D
        THEN [ err |-> "IsADirectory", step |-> "read", conf |-> DefaultConf ]
        ELSE IF w.loc \notin DOMAIN F
        THEN [ err |-> "NotFound", step |-> "read", conf |-> DefaultConf ]
        ELSE IF w.loc \in unreadable
        THEN [ err |-> "PermissionDenied", step |-> "read", conf |-> DefaultConf ]
        ELSE IF ParseFails(F[w.loc])
        THEN [ err |-> "ParseError", step |-> "parse", conf |-> DefaultConf ]
        ELSE [ err |-> "", step |-> "parse", conf |-> Deserialize(F[w.loc]) ]

(***************************************************************************)
(* RuntimeAssembly: Rtd::new().conf(..).db(..).load()                      *)
(***************************************************************************)
\* the configured path wins over the caller's override
get_db_info_conf_first(r) ==
    IF r.conf.features.history
    THEN IF r.conf.database.db_type = "InMemory" THEN None
         ELSE IF IsSome(r.conf.database.path) THEN r.conf.database.path
         ELSE IF IsSome(r.paths.db) THEN r.paths.db
         ELSE None
    ELSE None

\* the history flag is not consulted
get_db_info_any_history(r) ==
    IF r.conf.database.db_type = "InMemory" THEN None
    ELSE IF IsSome(r.paths.db) THEN r.paths.db
    ELSE IF IsSome(r.conf.database.path) THEN r.conf.database.path
    ELSE None

get_db_info(r) ==
    IF r.conf.features.history
    THEN IF r.conf.database.db_type = "InMemory" THEN None
         ELSE IF IsSome(r.paths.db) THEN r.paths.db
         ELSE IF IsSome(r.conf.database.path) THEN r.conf.database.path
         ELSE None
    ELSE None

MapExpand(o) == IF IsSome(o) THEN Some(expand_tilde(o[1])) ELSE None

Step(s, e) == [ step |-> s, err |-> e ]

\* the ? operator: the error leaves Rtd::load at once
Fail(s, e) ==
    /\ pc' = "failed"
    /\ ret' = "err"
    /\ error' = e
    /\ log' = Append(log, Step(s, e))
    /\ UNCHANGED snapshot

Went(s, next) ==
    /\ pc' = next
    /\ log' = Append(log, Step(s, ""))
    /\ UNCHANGED << ret, error, snapshot >>

EnvUnchanged == UNCHANGED << hasHome, cwd, ro, unreadable, diskFull, fs0, args >>

OtherUnchanged == UNCHANGED << call, added, created, conf0, loaded >>

\* Rtd::conf
SetConf ==
    /\ pc = "new"
    /\ rtd' = [ rtd EXCEPT !.paths.conf = expand_tilde(args.conf) ]
    /\ pc' = "conf"
    /\ UNCHANGED << dirs, files, ret, snapshot, error, log >>
    /\ EnvUnchanged /\ OtherUnchanged

\* Rtd::db
SetDb ==
    /\ pc = "conf"
    /\ rtd' = [ rtd EXCEPT !.paths.db = MapExpand(args.db) ]
    /\ pc' = "load"
    /\ UNCHANGED << dirs, files, ret, snapshot, error, log >>
    /\ EnvUnchanged /\ OtherUnchanged

\* Rtd::load, line 193
LoadEnsureConfDir ==
    /\ pc = "load"
    /\ LET r == ensure_parent_dir(dirs, files, rtd.paths.conf)
       IN  /\ dirs' = r.dirs
           /\ IF r.err # "" THEN Fail("ensure_conf_dir", r.err)
              ELSE Went("ensure_conf_dir", "bootstrap")
    /\ UNCHANGED << files, rtd >>
    /\ EnvUnchanged /\ OtherUnchanged

\* the default is written whether or not the file is there
conf_missing_always(D, F, p) == TRUE

conf_missing(D, F, p) == ~Exists(D, F, p)

\* Rtd::load, lines 195-202
LoadBootstrap ==
    /\ pc = "bootstrap"
    /\ IF conf_missing(dirs, files, rtd.paths.conf)
       THEN LET w == ConfWrite(dirs, files, DefaultConf, rtd.paths.conf)
            IN  /\ files' = w.files
                /\ IF w.err # "" THEN Fail("write_default", w.err)
                   ELSE Went("write_default", "read")
       ELSE /\ files' = files
            /\ pc' = "read"
            /\ UNCHANGED << ret, error, snapshot, log >>
    /\ UNCHANGED << dirs, rtd >>
    /\ EnvUnchanged /\ OtherUnchanged

\* Rtd::load, line 205
LoadRead ==
    /\ pc = "read"
    /\ LET r == ConfLoad(dirs, files, rtd.paths.conf)
       IN  IF r.err # ""
           THEN Fail(r.step, r.err) /\ rtd' = rtd
           ELSE Went("parse", "derive") /\ rtd' = [ rtd EXCEPT !.conf = r.conf ]
    /\ UNCHANGED << dirs, files >>
    /\ EnvUnchanged /\ OtherUnchanged

\* Rtd::load, line 207
LoadDerive ==
    /\ pc = "derive"
    /\ rtd' = [ rtd EXCEPT !.paths.db = MapExpand(get_db_info(rtd)) ]
    /\ pc' = "ensure_db"
    /\ UNCHANGED << dirs, files, ret, snapshot, error, log >>
    /\ EnvUnchanged /\ OtherUnchanged

\* Rtd::load, lines 209-211
LoadEnsureDbDir ==
    /\ pc = "ensure_db"
    /\ IF IsSome(rtd.paths.db)
       THEN LET r == ensure_parent_dir(dirs, files, rtd.paths.db[1])
            IN  /\ dirs' = r.dirs
                /\ IF r.err # "" THEN Fail("ensure_db_dir", r.err)
                   ELSE Went("ensure_db_dir", "stamp")
       ELSE /\ dirs' = dirs
            /\ pc' = "stamp"
            /\ UNCHANGED << ret, error, snapshot, log >>
    /\ UNCHANGED << files, rtd >>
    /\ EnvUnchanged /\ OtherUnchanged

\* Rtd::load, lines 213-216
LoadReturn ==
    /\ pc = "stamp"
    /\ rtd' = [ rtd EXCEPT !.conf.client.version = Some(VERSION) ]
    /\ snapshot' = Some(rtd')
    /\ ret' = "ok"
    /\ pc' = "done"
    /\ UNCHANGED << dirs, files, error, log >>
    /\ EnvUnchanged /\ OtherUnchanged

(***************************************************************************)
(* Initial states of the assembly: the caller's arguments and the file     *)
(* system it starts on                                                     *)
(***************************************************************************)
Cwd == << "w" >>

ConfArgs == { << "c.toml" >>, << "d", "c.toml" >>, << "~", "d", "c.toml" >> }

DbArgs == { None, Some(<< "~", "o.db" >>), Some(<< "x", "o.db" >>) }

DocPaths == { None, Some(<< "data", "hist.db" >>), Some(<< "~", "h.db" >>) }

DocTypes == { None, Some("InMemory"), Some("SQLite"), Some("Postgres") }

InitDocs ==
    { [ EmptyDoc EXCEPT !.history = h, !.type = t, !.path = p, !.connection = cn ] :
        h \in { None, Some(TRUE), Some(FALSE) }, t \in DocTypes, p \in DocPaths,
        cn \in BOOLEAN }
    \cup { Garbage }

InitDirs ==
    { { << >>, Cwd } \cup X :
        X \in { {}, { << "h" >> }, { << "w", "d" >> }, { << "h" >>, << "w", "d" >> },
                { << "h" >>, << "h", "d" >> } } }

NoFiles == [ l \in {} |-> EmptyDoc ]

Init ==
    /\ hasHome \in BOOLEAN
    /\ cwd = Cwd
    /\ dirs \in InitDirs
    /\ ro \in SUBSET ({ << "w" >>, << "h" >> } \cap dirs)
    /\ args \in [ conf : ConfArgs, db : DbArgs ]
    /\ LET w == Locate(dirs, NoFiles, expand_tilde(args.conf))
       IN  IF w.err = "" /\ w.loc \notin dirs
           THEN \/ /\ files = NoFiles
                   /\ unreadable = {}
                   /\ diskFull \in BOOLEAN
                \/ /\ \E d \in InitDocs : files = (w.loc :> d)
                   /\ unreadable \in { {}, { w.loc } }
                   /\ diskFull = FALSE
           ELSE /\ files = NoFiles
                /\ unreadable = {}
                /\ diskFull \in BOOLEAN
    /\ fs0 = [ dirs |-> dirs, files |-> files ]
    /\ rtd = RtdDefault
    /\ pc = "new"
    /\ ret = "none"
    /\ snapshot = None
    /\ error = ""
    /\ log = << >>
    /\ call = [ op |-> "none", name |-> "", path |-> << >>, val |-> FALSE, err |-> "" ]
    /\ added = {}
    /\ created = {}
    /\ conf0 = DefaultConf
    /\ loaded = None

Next ==
    \/ SetConf
    \/ SetDb
    \/ LoadEnsureConfDir
    \/ LoadBootstrap
    \/ LoadRead
    \/ LoadDerive
    \/ LoadEnsureDbDir
    \/ LoadReturn

Spec == Init /\ [][Next]_vars

(***************************************************************************)
(* Channel list helpers: Conf::add_channel and Conf::remove_channel        *)
(***************************************************************************)
add_channel(c, name) ==
    IF IsSome(c.client.channels)
    THEN IF ~Contains(c.client.channels[1], name)
         THEN [ c EXCEPT !.client.channels = Some(Append(c.client.channels[1], name)) ]
         ELSE c
    ELSE c

\* iter().position: the index of the first entry equal to name
Position(s, name) == CHOOSE i \in 1..Len(s) : s[i] = name /\ \A j \in 1..(i - 1) : s[j] # name

\* Vec::remove
RemoveAt(s, i) == SubSeq(s, 1, i - 1) \o SubSeq(s, i + 1, Len(s))

\* Vec::retain: every entry equal to name goes
remove_channel_all(c, name) ==
    IF IsSome(c.client.channels)
    THEN [ c EXCEPT !.client.channels =
               Some(SelectSeq(c.client.channels[1], LAMBDA x : x # name)) ]
    ELSE c

remove_channel(c, name) ==
    IF IsSome(c.client.channels)
    THEN IF Contains(c.client.channels[1], name)
         THEN [ c EXCEPT !.client.channels =
                    Some(RemoveAt(c.client.channels[1],
                                  Position(c.client.channels[1], name))) ]
         ELSE c
    ELSE c

MaxChannels == 4

MaxInitChannels == 2

ChannelNames == { "#url-bot-rs", "#cheese", "#Cheese" }

\* the entries of the connection's channel list
ChannelList(c) == IF IsSome(c.client.channels) THEN c.client.channels[1] ELSE << >>

NoCall == [ op |-> "none", name |-> "", path |-> << >>, val |-> FALSE, err |-> "" ]

AssemblyIdle ==
    /\ pc = "new" /\ ret = "none" /\ snapshot = None /\ error = "" /\ log = << >>
    /\ args = [ conf |-> << "c.toml" >>, db |-> None ]

AssemblyUnchanged == UNCHANGED << pc, ret, snapshot, error, log, args >>

AddChannel(name) ==
    /\ Len(ChannelList(rtd.conf)) < MaxChannels
    /\ rtd' = [ rtd EXCEPT !.conf = add_channel(rtd.conf, name) ]
    /\ call' = [ NoCall EXCEPT !.op = "add_channel", !.name = name ]
    /\ added' = IF Len(ChannelList(rtd'.conf)) > Len(ChannelList(rtd.conf))
                THEN added \cup { name } ELSE added
    /\ UNCHANGED << hasHome, cwd, dirs, ro, files, unreadable, diskFull, fs0,
                    created, conf0, loaded >>
    /\ AssemblyUnchanged

RemoveChannel(name) ==
    /\ rtd' = [ rtd EXCEPT !.conf = remove_channel(rtd.conf, name) ]
    /\ call' = [ NoCall EXCEPT !.op = "remove_channel", !.name = name ]
    /\ added' = added \ { name }
    /\ UNCHANGED << hasHome, cwd, dirs, ro, files, unreadable, diskFull, fs0,
                    created, conf0, loaded >>
    /\ AssemblyUnchanged

InitChannels ==
    { None } \cup
    { Some(s) : s \in UNION { [ 1..n -> ChannelNames ] : n \in 0..MaxInitChannels } }

InitChan ==
    /\ hasHome = TRUE /\ cwd = Cwd /\ dirs = { << >>, Cwd } /\ ro = {}
    /\ files = NoFiles /\ unreadable = {} /\ diskFull = FALSE
    /\ fs0 = [ dirs |-> dirs, files |-> files ]
    /\ AssemblyIdle
    /\ \E ch \in InitChannels : rtd = [ RtdDefault EXCEPT !.conf.client.channels = ch ]
    /\ call = NoCall /\ added = {} /\ created = {} /\ conf0 = DefaultConf
    /\ loaded = None

NextChan ==
    \/ \E name \in ChannelNames : AddChannel(name)
    \/ \E name \in ChannelNames : RemoveChannel(name)

SpecChan == InitChan /\ [][NextChan]_vars

(***************************************************************************)
(* Sequences of ensure_parent_dir calls                                    *)
(***************************************************************************)
FirstComps == { ".", "..", "a", "f" }

RestComps == { "..", "a", "f" }

\* components() keeps a "." only in first place
EnsurePaths ==
    { << x >> : x \in FirstComps }
    \cup { << x, y >> : x \in FirstComps, y \in RestComps }
    \cup { << ".", "a", "f" >>, << "..", "a", "f" >>, << "a", "a", "f" >>,
           << "a", "..", "f" >>, << "f", "a", "f" >>, << "a", "f", "a" >> }

SubDir == << "t", "subdir" >>

EnsureParent(p) ==
    /\ LET r == ensure_parent_dir(dirs, files, p)
       IN  /\ dirs' = r.dirs
           /\ call' = [ NoCall EXCEPT !.op = "ensure_parent_dir", !.path = p,
                                      !.val = r.val, !.err = r.err ]
           /\ created' = IF r.val THEN created \cup { Locate(r.dirs, files, Front(p)).loc }
                         ELSE created
    /\ UNCHANGED << hasHome, cwd, ro, files, unreadable, diskFull, fs0, rtd, added,
                    conf0, loaded >>
    /\ AssemblyUnchanged

InitEnsure ==
    /\ hasHome = TRUE /\ cwd = SubDir
    /\ dirs = { << >>, << "t" >>, SubDir }
    /\ ro \in { {}, { SubDir }, { << "t" >> } }
    /\ files \in { NoFiles, (Append(SubDir, "f") :> EmptyDoc) }
    /\ unreadable = {} /\ diskFull = FALSE
    /\ fs0 = [ dirs |-> dirs, files |-> files ]
    /\ AssemblyIdle
    /\ rtd = RtdDefault
    /\ call = NoCall /\ added = {} /\ created = {} /\ conf0 = DefaultConf
    /\ loaded = None

NextEnsure == \E p \in EnsurePaths : EnsureParent(p)

SpecEnsure == InitEnsure /\ [][NextEnsure]_vars

(***************************************************************************)
(* Conf::write followed by Conf::load                                      *)
(***************************************************************************)
Confs ==
    { [ network  |-> [ name |-> n ],
        features |-> [ history |-> h ],
        database |-> [ db_type |-> t, path |-> dp ],
        client   |-> [ channels |-> ch, version |-> v ] ] :
        n \in { "default", "libera" }, h \in BOOLEAN, t \in DbTypes,
        dp \in { None, Some(<< "data", "hist.db" >>) },
        ch \in { None, Some(<< >>), Some(<< "#cheese" >>) },
        v \in { None, Some(VERSION) } }

StorePaths == { << "c.toml" >>, << ".", "c.toml" >>, << "d", "c.toml" >> }

Write(p) ==
    /\ LET w == ConfWrite(dirs, files, conf0, p)
       IN  /\ files' = w.files
           /\ call' = [ NoCall EXCEPT !.op = "write", !.path = p, !.err = w.err ]
    /\ UNCHANGED << hasHome, cwd, dirs, ro, unreadable, diskFull, fs0, rtd, added,
                    created, conf0, loaded >>
    /\ AssemblyUnchanged

Load(p) ==
    /\ LET r == ConfLoad(dirs, files, p)
       IN  /\ loaded' = IF r.err = "" THEN Some(r.conf) ELSE None
           /\ call' = [ NoCall EXCEPT !.op = "load", !.path = p, !.err = r.err ]
    /\ UNCHANGED << hasHome, cwd, dirs, ro, files, unreadable, diskFull, fs0, rtd,
                    added, created, conf0 >>
    /\ AssemblyUnchanged

InitStore ==
    /\ hasHome = TRUE /\ cwd = Cwd
    /\ dirs = { << >>, Cwd }
    /\ ro \in { {}, { Cwd } }
    /\ files \in { NoFiles, (<< "w", "c.toml" >> :> Garbage),
                   (<< "w", "c.toml" >> :> [ EmptyDoc EXCEPT !.history = Some(TRUE) ]) }
    /\ unreadable = {} /\ diskFull \in BOOLEAN
    /\ fs0 = [ dirs |-> dirs, files |-> files ]
    /\ AssemblyIdle
    /\ rtd = RtdDefault
    /\ call = NoCall /\ added = {} /\ created = {}
    /\ conf0 \in Confs
    /\ loaded = None

NextStore ==
    \/ \E p \in StorePaths : Write(p)
    \/ \E p \in StorePaths : Load(p)

SpecStore == InitStore /\ [][NextStore]_vars

(***************************************************************************)
(* Properties of the runtime assembly                                      *)
(***************************************************************************)
Snap == snapshot[1]

Returned == ret = "ok" /\ IsSome(snapshot)

\* what a path is after its leading ~ is replaced by the home directory
HomeExpanded(p) ==
    IF hasHome /\ p # << >> /\ Head(p) = "~" THEN HomeDir \o Tail(p) ELSE p

Persistent(c) == c.features.history /\ c.database.db_type = "SQLite"

\* C1: a snapshot whose configuration has history on and the SQLite backend
\* carries the home-expanded override if the caller gave one, else the
\* home-expanded database.path if the file sets it, else no storage path.
C1_StoragePathPrecedence ==
    Returned /\ Persistent(Snap.conf) =>
        Snap.paths.db =
            IF IsSome(args.db) THEN Some(HomeExpanded(args.db[1]))
            ELSE IF IsSome(Snap.conf.database.path)
            THEN Some(HomeExpanded(Snap.conf.database.path[1]))
            ELSE None

C1_Witness ==
    /\ Returned /\ Persistent(Snap.conf) /\ hasHome
    /\ IsSome(args.db) /\ Head(args.db[1]) = "~"
    /\ IsSome(Snap.conf.database.path)
    /\ Snap.paths.db = Some(<< "/", "h", "o.db" >>)

\* C2: a snapshot carries a storage path only if its configuration has history
\* on and the SQLite backend; otherwise the path is absent whatever override
\* the caller gave, and the storage-directory step creates no directory.
C2_StoragePathOnlyIfPersistent ==
    [][ /\ (Returned' => (IsSome(Snap'.paths.db) => Persistent(Snap'.conf)))
        /\ (pc = "ensure_db" /\ ~Persistent(rtd.conf) =>
               rtd.paths.db = None /\ dirs' = dirs) ]_vars

C2_Witness ==
    /\ Returned /\ IsSome(args.db) /\ ~Persistent(Snap.conf)
    /\ Snap.conf.database.db_type = "SQLite"
    /\ Snap.paths.db = None
    /\ ~Exists(dirs, files, Parent(HomeExpanded(args.db[1]))[1])

\* C3: no step of the assembly deletes or changes a file that exists: a
\* configuration file present when assembly starts has the same content when
\* it ends, in success and in failure.
C3_ExistingFileUntouched ==
    [][ \A l \in DOMAIN files : l \in DOMAIN files' /\ files'[l] = files[l] ]_vars

ConfLoc == Locate(dirs, files, rtd.paths.conf).loc

C3_Witness ==
    /\ Returned
    /\ ConfLoc \in DOMAIN fs0.files
    /\ files[ConfLoc] = fs0.files[ConfLoc]
    /\ files[ConfLoc] # Serialize(Snap.conf)
    /\ files[ConfLoc] # Serialize(DefaultConf)

ConfParent == Parent(expand_tilde(args.conf))

FreshStart ==
    /\ Len(expand_tilde(args.conf)) > 1
    /\ ~Exists(fs0.dirs, fs0.files, ConfParent[1])
    /\ ~Exists(fs0.dirs, fs0.files, expand_tilde(args.conf))

\* C4: when neither the configuration file nor its parent directory exists,
\* the directory is there before the file is written, and a successful
\* assembly leaves the serialized default configuration in the file and
\* returns a snapshot with history false and no storage path.
C4_FreshStartWritesDefault ==
    FreshStart =>
        /\ (pc = "bootstrap" =>
               IsDir(dirs, files, ConfParent[1]) /\ ConfLoc \notin DOMAIN files)
        /\ (Returned =>
               /\ IsDir(dirs, files, ConfParent[1])
               /\ ConfLoc \in DOMAIN files
               /\ files[ConfLoc] = Serialize(DefaultConf)
               /\ Snap.history = FALSE
               /\ Snap.paths.db = None)

C4_Witness ==
    /\ FreshStart /\ Returned
    /\ Cardinality(dirs \ fs0.dirs) = 2
    /\ IsSome(args.db)

ConfReadable ==
    /\ ConfLoc \in DOMAIN files
    /\ ConfLoc \notin unreadable
    /\ ~ParseFails(files[ConfLoc])

DirsAfterConfStep == ensure_parent_dir(fs0.dirs, fs0.files, rtd.paths.conf).dirs

\* C5: a step that fails is the last step performed, its error is what the
\* caller gets, and there is no snapshot; a failed read or parse leaves the
\* storage directory uncreated; a snapshot is returned only when every step
\* succeeded, the file written for an absent configuration included.
C5_FailureAborts ==
    /\ \A i \in 1..Len(log) :
          log[i].err # "" =>
              /\ i = Len(log)
              /\ pc = "failed" /\ ret = "err" /\ snapshot = None
              /\ error = log[i].err
    /\ (pc = "failed" =>
           /\ ret = "err" /\ snapshot = None
           /\ log # << >> /\ Last(log).err # ""
           /\ (Last(log).step \in { "read", "parse" } => dirs = DirsAfterConfStep))
    /\ (pc \in { "derive", "ensure_db", "stamp", "done" } => ConfReadable)
    /\ (Returned =>
           /\ \A i \in 1..Len(log) : log[i].err = ""
           /\ (Len(rtd.paths.conf) > 1 => IsDir(dirs, files, Parent(rtd.paths.conf)[1]))
           /\ (IsSome(Snap.paths.db) /\ Len(Snap.paths.db[1]) > 1 =>
                  IsDir(dirs, files, Parent(Snap.paths.db[1])[1]))
           /\ (ConfLoc \notin DOMAIN fs0.files =>
                  Snap.conf = [ DefaultConf EXCEPT !.client.version = Some(VERSION) ]))

C5_Witness ==
    /\ pc = "failed" /\ Last(log).step = "parse" /\ error = "ParseError"
    /\ IsSome(rtd.paths.db)
    /\ ~Exists(dirs, files, Parent(rtd.paths.db[1])[1])

\* C6: the history flag of a returned snapshot equals features.history of the
\* configuration loaded into it.
C6_HistoryFlagMirrorsFeature ==
    Returned => Snap.history = Snap.conf.features.history

(***************************************************************************)
(* Properties of the channel list helpers                                  *)
(***************************************************************************)
\* C7: add_channel(name) leaves the list as the prior list followed by name
\* when no entry equals name, and leaves it as it was when one does.
C7_AddChannelAppendsIfAbsent ==
    [][ call'.op = "add_channel" =>
            LET before == ChannelList(rtd.conf)
                after == ChannelList(rtd'.conf)
            IN  IF Contains(before, call'.name) THEN after = before
                ELSE after = Append(before, call'.name) ]_vars

\* C8: remove_channel(name) takes out the first entry equal to name and keeps
\* the others in order, changes nothing when no entry equals name, and after
\* it a name that add_channel had appended is gone, the list one shorter.
C8_RemoveChannelFirstMatch ==
    [][ call'.op = "remove_channel" =>
            LET n == call'.name
                before == ChannelList(rtd.conf)
                after == ChannelList(rtd'.conf)
            IN  /\ IF Contains(before, n)
                   THEN \E i \in 1..Len(before) :
                            /\ before[i] = n
                            /\ \A j \in 1..(i - 1) : before[j] # n
                            /\ Len(after) = Len(before) - 1
                            /\ \A j \in 1..(i - 1) : after[j] = before[j]
                            /\ \A j \in i..Len(after) : after[j] = before[j + 1]
                   ELSE rtd'.conf = rtd.conf
                /\ IsSome(rtd'.conf.client.channels) = IsSome(rtd.conf.client.channels)
                /\ (n \in added =>
                       ~Contains(after, n) /\ Len(after) = Len(before) - 1) ]_vars

C8_Witness ==
    /\ call.op = "remove_channel"
    /\ Contains(ChannelList(rtd.conf), call.name)
    /\ Len(ChannelList(rtd.conf)) = 2
    /\ added # {}

(***************************************************************************)
(* Properties of ensure_parent_dir                                         *)
(***************************************************************************)
HasDirPart(p) == Len(p) > 1

ParentMissing(p) == HasDirPart(p) /\ ~Exists(dirs, files, Front(p))

\* what every call keeps, whatever it returns
EnsureFrame(p) ==
    /\ dirs \subseteq dirs'
    /\ (call'.val => IsDir(dirs', files', Front(p)))
    /\ \A l \in dirs' : l # << >> => Front(l) \in dirs'
    /\ (~ParentMissing(p) => call'.val = FALSE /\ call'.err = "" /\ dirs' = dirs)
    /\ (~HasDirPart(p) => call'.val = FALSE /\ dirs' = dirs)
    /\ LET w == Locate(dirs, files, Front(p))
       IN  HasDirPart(p) /\ w.err = "" /\ w.loc \in created =>
               call'.val = FALSE /\ call'.err = "" /\ dirs' = dirs

\* C9 as stated: a call returns true exactly when the path has a directory part
\* and its parent did not exist; later calls for that parent return false and
\* change nothing; a bare filename returns false and creates nothing.
C9_TrueExactlyWhenParentMissing ==
    [][ call'.op = "ensure_parent_dir" =>
            /\ (call'.val = TRUE /\ call'.err = "") <=> ParentMissing(call'.path)
            /\ EnsureFrame(call'.path) ]_vars

\* C9 amended: a call that does not fail returns true exactly when the path has
\* a directory part and its parent did not exist, and a call fails only when
\* that parent was missing; the rest as stated.
C9_TrueExactlyWhenParentMissingUnlessFailed ==
    [][ call'.op = "ensure_parent_dir" =>
            /\ (call'.err = "" => (call'.val = TRUE <=> ParentMissing(call'.path)))
            /\ (call'.err # "" => ParentMissing(call'.path) /\ call'.val = FALSE)
            /\ EnsureFrame(call'.path) ]_vars

C9_Witness ==
    /\ call.op = "ensure_parent_dir" /\ call.err = "" /\ call.val = FALSE
    /\ call.path = << ".", "a", "f" >>
    /\ Locate(dirs, files, Front(call.path)).loc \in created
    /\ Cardinality(created) = 2

====
